---- MODULE Spec2Model ----
(***************************************************************************)
(* Model of task_lib (task.md-utilities): the Task entity, its annotation  *)
(* codec (Task.from_file / Task.from_dict / Task.to_file), Task.split, and *)
(* the TaskManager operations on the lane directories below base_dir.      *)
(*                                                                         *)
(* A text (Python str) is a sequence of one-character strings.  An         *)
(* Optional value is a sequence of length 0 (None) or 1 (the value).       *)
(***************************************************************************)
EXTENDS Integers, Sequences, FiniteSets, TLC

VARIABLES
    task,    \* Optional Task: the Task object the caller holds
    file,    \* Optional file on disk: [parent, name, text]
    saved,   \* Optional Task: the fields of the task Task.to_file last wrote
    raw,     \* Optional text: the text Task.from_file last read
    dict,    \* Optional mapping: the argument of Task.from_dict
    frags,   \* list of Tasks: the value Task.split last returned
    pc,      \* the operation that ran last
    steps,   \* number of operations run so far
    fs,      \* the files below base_dir: path [parent, name] -> text
    dirs,    \* the directories below base_dir
    stats,   \* Optional mapping: what calculate_statistics last returned
    written, \* the files the last operation on the store wrote, in order
    call,    \* Optional mapping: the arguments of the last operation, and
             \* for change_lane the lane it reports to have moved from
    config,  \* Optional Config: the Config object the caller holds
    cfile    \* Optional document: the text of the configuration file

taskVars == <<task, file, saved, raw, dict, frags>>

storeVars == <<fs, dirs, stats, written, call>>

configVars == <<config, cfile>>

vars == <<task, file, saved, raw, dict, frags, pc, steps, fs, dirs, stats,
          written, call, config, cfile>>

----------------------------------------------------------------------------
(* Optional values *)

None == <<>>

Some(x) == <<x>>

IsNone(o) == o = <<>>

IsSome(o) == o # <<>>

Get(o) == o[1]

----------------------------------------------------------------------------
(* Python str primitives, on sequences of characters *)

NL == "\n"

\* str.isspace() for one character (the ASCII whitespace str.strip() removes)
IsSpace(c) == c \in {" ", "\t", "\n", "\r", "\f"}

\* s.startswith(sub, i-1)
HasAt(s, sub, i) ==
    /\ i + Len(sub) - 1 <= Len(s)
    /\ \A k \in 1..Len(sub) : s[i + k - 1] = sub[k]

\* sub in s
Contains(s, sub) == \E i \in 1..(Len(s) + 1) : HasAt(s, sub, i)

\* s.strip(chars): drop leading and trailing characters that are in chars
StripChars(s, chars) ==
    LET keep == {i \in 1..Len(s) : s[i] \notin chars}
    IN  IF keep = {} THEN <<>>
        ELSE LET lo == CHOOSE i \in keep : \A j \in keep : i <= j
                 hi == CHOOSE i \in keep : \A j \in keep : i >= j
             IN  SubSeq(s, lo, hi)

\* s.strip()
Strip(s) ==
    LET keep == {i \in 1..Len(s) : ~IsSpace(s[i])}
    IN  IF keep = {} THEN <<>>
        ELSE LET lo == CHOOSE i \in keep : \A j \in keep : i <= j
                 hi == CHOOSE i \in keep : \A j \in keep : i >= j
             IN  SubSeq(s, lo, hi)

\* s.split(sep): the list of texts between the non-overlapping occurrences
\* of sep, found left to right
RECURSIVE SplitFrom(_, _, _, _)
SplitFrom(s, sep, start, i) ==
    IF i + Len(sep) - 1 > Len(s)
    THEN <<SubSeq(s, start, Len(s))>>
    ELSE IF HasAt(s, sep, i)
         THEN <<SubSeq(s, start, i - 1)>>
                  \o SplitFrom(s, sep, i + Len(sep), i + Len(sep))
         ELSE SplitFrom(s, sep, start, i + 1)

StrSplit(s, sep) == SplitFrom(s, sep, 1, 1)

\* sep.join(parts)
RECURSIVE Join(_, _)
Join(parts, sep) ==
    IF parts = <<>> THEN <<>>
    ELSE IF Len(parts) = 1 THEN parts[1]
    ELSE parts[1] \o sep \o Join(Tail(parts), sep)

\* str(n) for a natural number n
Digit(n) == <<"0", "1", "2", "3", "4", "5", "6", "7", "8", "9">>[n + 1]

RECURSIVE IntStr(_)
IntStr(n) == IF n < 10 THEN <<Digit(n)>> ELSE IntStr(n \div 10) \o <<Digit(n % 10)>>

----------------------------------------------------------------------------
(* The annotation patterns: tag_re and date_line_re *)

TagOpen == <<"[", "t", "a", "g", ":">>

DueOpen == <<"[", "d", "u", "e", ":">>

SplitMarker == <<"[", "[", "s", "p", "l", "i", "t", "]", "]">>

SplitTag == <<"m", "u", "l", "t", "i", "-", "s", "t", "o", "r", "y", " ",
              "f", "e", "a", "t", "u", "r", "e">>

\* End of the match of  open .*? \]  that starts at position i of s, or 0:
\* the first "]" after the opening, with no newline before it ('.' does not
\* match a newline)
MatchEnd(s, open, i) ==
    IF ~HasAt(s, open, i) THEN 0
    ELSE LET from == i + Len(open)
             ends == {j \in from..Len(s) :
                        /\ s[j] = "]"
                        /\ \A k \in from..(j - 1) : s[k] # "]" /\ s[k] # NL}
         IN  IF ends = {} THEN 0 ELSE CHOOSE j \in ends : TRUE

\* pattern.findall(s): the non-overlapping matches, left to right
RECURSIVE FindAllFrom(_, _, _)
FindAllFrom(s, open, i) ==
    IF i > Len(s) THEN <<>>
    ELSE LET e == MatchEnd(s, open, i)
         IN  IF e = 0 THEN FindAllFrom(s, open, i + 1)
             ELSE <<SubSeq(s, i, e)>> \o FindAllFrom(s, open, e + 1)

FindAll(s, open) == FindAllFrom(s, open, 1)

\* pattern.match(s): a match that starts at the first character
ReMatch(s, open) == MatchEnd(s, open, 1) # 0

\* m.strip('[]').split(":")[1].strip() for a match m of either pattern
AnnotationValue(m) ==
    Strip(StrSplit(StripChars(m, {"[", "]"}), <<":">>)[2])

----------------------------------------------------------------------------
(* datetime.strptime(s, '%Y-%m-%d') and strftime('%Y-%m-%d') *)

IsDigit(c) == c \in {"0", "1", "2", "3", "4", "5", "6", "7", "8", "9"}

DigitVal(c) == CHOOSE n \in 0..9 : Digit(n) = c

RECURSIVE StrInt(_)
StrInt(s) == IF s = <<>> THEN 0
             ELSE 10 * StrInt(SubSeq(s, 1, Len(s) - 1)) + DigitVal(s[Len(s)])

AllDigits(s) == \A i \in 1..Len(s) : IsDigit(s[i])

IsLeap(y) == (y % 4 = 0 /\ y % 100 # 0) \/ y % 400 = 0

DaysInMonth(y, m) ==
    IF m = 2 THEN (IF IsLeap(y) THEN 29 ELSE 28)
    ELSE IF m \in {4, 6, 9, 11} THEN 30 ELSE 31

\* %m: 1[0-2]|0[1-9]|[1-9]
IsMonthField(s) ==
    /\ Len(s) \in {1, 2} /\ AllDigits(s) /\ StrInt(s) \in 1..12

\* %d: 3[01]|[12]\d|0[1-9]|[1-9]| [1-9]
IsDayField(s) ==
    \/ Len(s) \in {1, 2} /\ AllDigits(s) /\ StrInt(s) \in 1..31
    \/ Len(s) = 2 /\ s[1] = " " /\ IsDigit(s[2]) /\ s[2] # "0"

\* The date, or None where strptime raises ValueError
Strptime(s) ==
    LET f == StrSplit(s, <<"-">>)
    IN  IF /\ Len(f) = 3
           /\ Len(f[1]) = 4 /\ AllDigits(f[1]) /\ StrInt(f[1]) >= 1
           /\ IsMonthField(f[2])
           /\ IsDayField(f[3])
           /\ StrInt(Strip(f[3])) <= DaysInMonth(StrInt(f[1]), StrInt(f[2]))
        THEN Some([y |-> StrInt(f[1]), m |-> StrInt(f[2]),
                   d |-> StrInt(Strip(f[3]))])
        ELSE None

Pad2(n) == IF n < 10 THEN <<"0">> \o IntStr(n) ELSE IntStr(n)

\* %Y is not zero-padded by the C library, %m and %d are
Strftime(date) ==
    IntStr(date.y) \o <<"-">> \o Pad2(date.m) \o <<"-">> \o Pad2(date.d)

----------------------------------------------------------------------------
(* class Task *)

\* The dataclass constructor: tags, due_date and path are Optional
Task(title, content, lane, path, tags, due_date) ==
    [title |-> title, content |-> content, lane |-> lane, path |-> path,
     tags |-> tags, due_date |-> due_date]

\* Truth value of an Optional[str] argument: None and "" are false
Truthy(o) == IsSome(o) /\ Get(o) # <<>>

\* Path: a directory name and a file name below the base directory
PathOf(parent, name) == [parent |-> parent, name |-> name]

MdSuffix == <<".", "m", "d">>

\* PurePath.stem: the name up to its last dot, unless that dot is the first
\* or the last character
Stem(name) ==
    LET dots == {i \in 1..Len(name) : name[i] = "."}
    IN  IF dots = {} THEN name
        ELSE LET i == CHOOSE k \in dots : \A j \in dots : j <= k
             IN  IF 1 < i /\ i < Len(name) THEN SubSeq(name, 1, i - 1) ELSE name

CreateDateLineStr(self) ==
    IF IsSome(self.due_date)
    THEN Some(DueOpen \o Strftime(Get(self.due_date)) \o <<"]">>)
    ELSE None

NotDateLine(line) == ~ReMatch(line, DueOpen)

NotTagLine(line) == ~ReMatch(line, TagOpen)

\* The new self.content
RemoveDateLineFromContent_OnlyValidDates(content) ==
    LET Kept(line) ==
            \/ ~ReMatch(line, DueOpen)
            \/ IsNone(Strptime(AnnotationValue(FindAll(line, DueOpen)[1])))
    IN  Join(SelectSeq(StrSplit(content, <<NL>>), Kept), <<NL>>)

RemoveDateLineFromContent(content) ==
    Join(SelectSeq(StrSplit(content, <<NL>>), NotDateLine), <<NL>>)

AddDateLineToTaskContent_OneNewline(self, content) ==
    LET date_line == CreateDateLineStr(self)
        result == IF Truthy(content) THEN Get(content) ELSE self.content
    IN  IF Truthy(date_line)
        THEN IF Truthy(content)
             THEN Get(date_line) \o <<NL>> \o Get(content)
             ELSE Get(date_line) \o <<NL>> \o self.content
        ELSE result

AddDateLineToTaskContent(self, content) ==
    LET date_line == CreateDateLineStr(self)
        result == IF Truthy(content) THEN Get(content) ELSE self.content
    IN  IF Truthy(date_line)
        THEN IF Truthy(content)
             THEN Get(date_line) \o <<NL, NL>> \o Get(content)
             ELSE Get(date_line) \o <<NL, NL>> \o self.content
        ELSE result

RECURSIVE TagStrings(_)
TagStrings(tags) ==
    IF tags = <<>> THEN <<>>
    ELSE <<TagOpen \o tags[1] \o <<"]">>>> \o TagStrings(Tail(tags))

CreateTagLinesStr(self) ==
    IF IsNone(self.tags) \/ Get(self.tags) = <<>>
    THEN None
    ELSE Some(Join(TagStrings(Get(self.tags)), <<NL>>))

\* The new self.content
RemoveTagsFromContent(content) ==
    Strip(Join(SelectSeq(StrSplit(content, <<NL>>), NotTagLine), <<NL>>))

AddTagLinesToTaskContent_AlwaysBlock(self, content) ==
    LET tag_lines == CreateTagLinesStr(self)
        head == IF Truthy(tag_lines) THEN Get(tag_lines) ELSE <<>>
    IN  IF Truthy(content)
        THEN head \o <<NL, NL>> \o Get(content)
        ELSE head \o <<NL, NL>> \o self.content

AddTagLinesToTaskContent(self, content) ==
    LET tag_lines == CreateTagLinesStr(self)
        result == IF Truthy(content) THEN Get(content) ELSE self.content
    IN  IF Truthy(tag_lines)
        THEN IF Truthy(content)
             THEN Get(tag_lines) \o <<NL, NL>> \o Get(content)
             ELSE Get(tag_lines) \o <<NL, NL>> \o self.content
        ELSE result

\* Task.to_file: the file written below base_dir
ToFileResult(self) ==
    [parent |-> self.lane,
     name   |-> self.title \o MdSuffix,
     text   |-> AddTagLinesToTaskContent(self,
                    Some(AddDateLineToTaskContent(self, None)))]

\* The tags the loop of Task.from_file collects from the lines
RECURSIVE MatchValues(_)
MatchValues(matches) ==
    IF matches = <<>> THEN <<>>
    ELSE <<AnnotationValue(matches[1])>> \o MatchValues(Tail(matches))

RECURSIVE ScanTags(_)
ScanTags(lines) ==
    IF lines = <<>> THEN <<>>
    ELSE MatchValues(FindAll(lines[1], TagOpen)) \o ScanTags(Tail(lines))

\* The due date the loop of Task.from_file ends with, starting from due_date
RECURSIVE ScanDue(_, _)
ScanDue(lines, due_date) ==
    IF lines = <<>> THEN due_date
    ELSE LET due_matches == FindAll(lines[1], DueOpen)
             parsed == IF due_matches = <<>> THEN None
                       ELSE Strptime(AnnotationValue(due_matches[1]))
         IN  ScanDue(Tail(lines), IF IsSome(parsed) THEN parsed ELSE due_date)

\* Task.from_file on the file f = [parent, name, text]
FromFileResult_TagsOrNone(f) ==
    LET lines == StrSplit(f.text, <<NL>>)
        tags == ScanTags(lines)
    IN  [title |-> Stem(f.name),
         content |-> RemoveDateLineFromContent(RemoveTagsFromContent(f.text)),
         lane |-> f.parent,
         path |-> Some(PathOf(f.parent, f.name)),
         tags |-> IF tags = <<>> THEN <<>> ELSE Some(tags),
         due_date |-> ScanDue(lines, None)]

FromFileResult(f) ==
    LET lines == StrSplit(f.text, <<NL>>)
    IN  Task(Stem(f.name),
             RemoveDateLineFromContent(RemoveTagsFromContent(f.text)),
             f.parent,
             Some(PathOf(f.parent, f.name)),
             Some(ScanTags(lines)),
             ScanDue(lines, None))

\* Task.from_dict on a mapping d whose fields are Optional (None: no such
\* key); the result is Optional (None: the KeyError branch)
FromDictResult_DefaultLane(d) ==
    LET due_date == IF IsSome(d.due_date) THEN Strptime(Get(d.due_date))
                    ELSE None
    IN  IF IsNone(d.title) \/ IsNone(d.content)
        THEN None
        ELSE Some(Task(Get(d.title),
                       RemoveDateLineFromContent(
                           RemoveTagsFromContent(Get(d.content))),
                       IF IsSome(d.lane) THEN Get(d.lane) ELSE <<>>,
                       None,
                       d.tags,
                       due_date))

FromDictResult_BadDateFails(d) ==
    LET due_date == IF IsSome(d.due_date) THEN Strptime(Get(d.due_date))
                    ELSE None
    IN  IF \/ IsNone(d.title) \/ IsNone(d.content) \/ IsNone(d.lane)
           \/ IsSome(d.due_date) /\ IsNone(due_date)
        THEN None
        ELSE Some(Task(Get(d.title),
                       RemoveDateLineFromContent(
                           RemoveTagsFromContent(Get(d.content))),
                       Get(d.lane),
                       None,
                       d.tags,
                       due_date))

FromDictResult_DecodesTags(d) ==
    LET due_date == IF IsSome(d.due_date) THEN Strptime(Get(d.due_date))
                    ELSE None
    IN  IF IsNone(d.title) \/ IsNone(d.content) \/ IsNone(d.lane)
        THEN None
        ELSE Some(Task(Get(d.title),
                       RemoveDateLineFromContent(
                           RemoveTagsFromContent(Get(d.content))),
                       Get(d.lane),
                       None,
                       Some((IF IsSome(d.tags) THEN Get(d.tags) ELSE <<>>)
                            \o ScanTags(StrSplit(Get(d.content), <<NL>>))),
                       due_date))

FromDictResult(d) ==
    LET due_date == IF IsSome(d.due_date) THEN Strptime(Get(d.due_date))
                    ELSE None
    IN  IF IsNone(d.title) \/ IsNone(d.content) \/ IsNone(d.lane)
        THEN None
        ELSE Some(Task(Get(d.title),
                       RemoveDateLineFromContent(
                           RemoveTagsFromContent(Get(d.content))),
                       Get(d.lane),
                       None,
                       d.tags,
                       due_date))

\* The body of the loop of Task.split: the fragment for the i-th part
NewTask_NoDueDate(self, part, common_tags, i) ==
    LET new_title == IntStr(i) \o <<"-">> \o self.title
    IN  [title |-> new_title, content |-> Strip(part), lane |-> self.lane,
         path |-> Some([parent |-> Get(self.path).parent,
                        name |-> new_title \o <<".", "m", "d">>]),
         tags |-> Some(common_tags), due_date |-> <<>>]

NewTask(self, part, common_tags, i) ==
    LET new_title == IntStr(i) \o <<"-">> \o self.title
    IN  Task(new_title,
             Strip(part),
             self.lane,
             Some(PathOf(Get(self.path).parent, new_title \o MdSuffix)),
             Some(common_tags),
             self.due_date)

\* Task.split: raised is TRUE where self.path.parent fails on a None path;
\* self is the task object as the call leaves it
SplitResult_DropEmptyParts(self) ==
    IF ~Contains(self.content, SplitMarker)
    THEN [raised |-> FALSE, tasks |-> <<self>>, self |-> self]
    ELSE IF IsNone(self.path)
    THEN [raised |-> TRUE, tasks |-> <<>>, self |-> self]
    ELSE LET NonEmpty(part) == Strip(part) # <<>>
             parts == SelectSeq(StrSplit(self.content, SplitMarker), NonEmpty)
             common_tags ==
                 (IF IsSome(self.tags) /\ Get(self.tags) # <<>>
                  THEN Get(self.tags) ELSE <<>>) \o <<SplitTag>>
         IN  [raised |-> FALSE,
              tasks |-> [i \in 1..Len(parts) |->
                            NewTask(self, parts[i], common_tags, i)],
              self |-> self]

SplitResult_NoIdentityCase(self) ==
    IF IsNone(self.path)
    THEN [raised |-> TRUE, tasks |-> <<>>, self |-> self]
    ELSE LET parts == StrSplit(self.content, SplitMarker)
             common_tags ==
                 (IF IsSome(self.tags) /\ Get(self.tags) # <<>>
                  THEN Get(self.tags) ELSE <<>>) \o <<SplitTag>>
         IN  [raised |-> FALSE,
              tasks |-> [i \in 1..Len(parts) |->
                            NewTask(self, parts[i], common_tags, i)],
              self |-> self]

SplitResult_TagsVerbatim(self) ==
    IF ~Contains(self.content, SplitMarker)
    THEN [raised |-> FALSE, tasks |-> <<self>>, self |-> self]
    ELSE IF IsNone(self.path)
    THEN [raised |-> TRUE, tasks |-> <<>>, self |-> self]
    ELSE LET parts == StrSplit(self.content, SplitMarker)
             common_tags ==
                 IF IsSome(self.tags) /\ Get(self.tags) # <<>>
                 THEN Get(self.tags) ELSE <<>>
         IN  [raised |-> FALSE,
              tasks |-> [i \in 1..Len(parts) |->
                            NewTask(self, parts[i], common_tags, i)],
              self |-> self]

SplitResult_NoCopy(self) ==
    IF ~Contains(self.content, SplitMarker)
    THEN [raised |-> FALSE, tasks |-> <<self>>, self |-> self]
    ELSE LET aliased == IsSome(self.tags) /\ Get(self.tags) # <<>>
             common_tags == (IF aliased THEN Get(self.tags) ELSE <<>>)
                            \o <<SplitTag>>
             after == IF aliased THEN [self EXCEPT !.tags = Some(common_tags)]
                      ELSE self
         IN  IF IsNone(self.path)
             THEN [raised |-> TRUE, tasks |-> <<>>, self |-> after]
             ELSE LET parts == StrSplit(self.content, SplitMarker)
                  IN  [raised |-> FALSE,
                       tasks |-> [i \in 1..Len(parts) |->
                                    NewTask(self, parts[i], common_tags, i)],
                       self |-> after]

SplitResult(self) ==
    IF ~Contains(self.content, SplitMarker)
    THEN [raised |-> FALSE, tasks |-> <<self>>, self |-> self]
    ELSE IF IsNone(self.path)
    THEN [raised |-> TRUE, tasks |-> <<>>, self |-> self]
    ELSE LET parts == StrSplit(self.content, SplitMarker)
             common_tags ==
                 (IF IsSome(self.tags) /\ Get(self.tags) # <<>>
                  THEN Get(self.tags) ELSE <<>>) \o <<SplitTag>>
         IN  [raised |-> FALSE,
              tasks |-> [i \in 1..Len(parts) |->
                            NewTask(self, parts[i], common_tags, i)],
              self |-> self]

----------------------------------------------------------------------------
(* Bounds and the inputs drawn within them *)

MaxPieces == 3       \* pieces in the text of a file found on disk

MaxBodyPieces == 2   \* pieces in the content of a Task built by a caller

MaxTags == 2         \* tags of a Task built by a caller

MaxDictPieces == 2   \* pieces in the content given to Task.from_dict

MaxSteps == 2        \* operations in one run

\* All concatenations of at most n texts of P
RECURSIVE Concats(_, _)
Concats(P, n) ==
    IF n = 0 THEN {<<>>}
    ELSE LET prev == Concats(P, n - 1)
         IN  prev \cup {p \o q : p \in P, q \in prev}

\* All lists of at most n elements of S
RECURSIVE Lists(_, _)
Lists(S, n) ==
    IF n = 0 THEN {<<>>}
    ELSE LET prev == Lists(S, n - 1)
         IN  prev \cup {<<x>> \o l : x \in S, l \in prev}

GoodDate == <<"2", "0", "2", "4", "-", "0", "1", "-", "0", "5">>

BadDate == <<"x">>

RawPieces ==
    { TagOpen \o <<"a", "]">>,
      TagOpen \o <<"a", ":", "b", "]">>,
      DueOpen \o GoodDate \o <<"]">>,
      DueOpen \o BadDate \o <<"]">>,
      <<NL>>, <<" ">>, <<"b">>,
      SplitMarker }

DictPieces ==
    { TagOpen \o <<"a", "]">>,
      DueOpen \o BadDate \o <<"]">>,
      <<NL>>, <<" ">>, <<"b">> }

BodyPieces == { <<"b">>, <<" ">>, <<NL>>, SplitMarker }

TagValues == { <<"a">>, <<"a", ":", "b">> }

\* Due dates of four-digit years, which strftime and strptime write alike
Dates == { [y |-> 2024, m |-> 1, d |-> 5], [y |-> 2025, m |-> 12, d |-> 31] }

Optional(S) == {None} \cup {Some(x) : x \in S}

TheTitle == <<"t">>

TheLane == <<"t", "o", "d", "o">>

ThePath == PathOf(TheLane, TheTitle \o MdSuffix)

\* Files a lane directory can hold before the program runs
InitFiles ==
    { [parent |-> TheLane, name |-> TheTitle \o MdSuffix, text |-> t] :
        t \in Concats(RawPieces, MaxPieces) }

\* Tasks a caller can build with the constructor
InitTasks ==
    { Task(TheTitle, c, TheLane, p, tg, du) :
        c \in Concats(BodyPieces, MaxBodyPieces),
        p \in {None, Some(ThePath)},
        tg \in Optional(Lists(TagValues, MaxTags)),
        du \in Optional(Dates) }

\* Mappings a caller can pass to Task.from_dict
InitDicts ==
    { [title |-> ti, content |-> c, lane |-> la, tags |-> tg, due_date |-> du] :
        ti \in Optional({TheTitle}),
        c \in Optional(Concats(DictPieces, MaxDictPieces)),
        la \in Optional({TheLane}),
        tg \in Optional({<<>>, <<<<"a">>>>}),
        du \in Optional({GoodDate, BadDate}) }

----------------------------------------------------------------------------
(* The state machine: one caller running the operations one after another *)

Init ==
    /\ pc = "init"
    /\ steps = 0
    /\ fs = <<>> /\ dirs = {} /\ stats = None /\ written = <<>>
    /\ call = None
    /\ config = None /\ cfile = None
    /\ frags = <<>>
    /\ saved = None
    /\ raw = None
    /\ \/ file \in {Some(f) : f \in InitFiles} /\ task = None /\ dict = None
       \/ task \in {Some(t) : t \in InitTasks} /\ file = None /\ dict = None
       \/ dict \in {Some(d) : d \in InitDicts} /\ file = None /\ task = None

\* task = Task.from_file(path, base_dir)
FromFile ==
    /\ steps < MaxSteps
    /\ IsSome(file)
    /\ task' = Some(FromFileResult(Get(file)))
    /\ raw' = Some(Get(file).text)
    /\ pc' = "from_file"
    /\ steps' = steps + 1
    /\ UNCHANGED configVars
    /\ UNCHANGED <<file, saved, dict, frags>>
    /\ UNCHANGED storeVars

\* task = Task.from_dict(dict)
FromDict ==
    /\ steps < MaxSteps
    /\ IsSome(dict)
    /\ task' = FromDictResult(Get(dict))
    /\ pc' = "from_dict"
    /\ steps' = steps + 1
    /\ UNCHANGED configVars
    /\ UNCHANGED <<file, saved, raw, dict, frags>>
    /\ UNCHANGED storeVars

\* task.to_file(base_dir)
ToFile ==
    /\ steps < MaxSteps
    /\ IsSome(task)
    /\ file' = Some(ToFileResult(Get(task)))
    /\ saved' = task
    /\ pc' = "to_file"
    /\ steps' = steps + 1
    /\ UNCHANGED configVars
    /\ UNCHANGED <<task, raw, dict, frags>>
    /\ UNCHANGED storeVars

\* frags = task.split()
Split ==
    /\ steps < MaxSteps
    /\ IsSome(task)
    /\ LET r == SplitResult(Get(task))
       IN  /\ frags' = r.tasks
           /\ task' = Some(r.self)
           /\ pc' = IF r.raised THEN "split_raised" ELSE "split"
    /\ steps' = steps + 1
    /\ UNCHANGED configVars
    /\ UNCHANGED <<file, saved, raw, dict>>
    /\ UNCHANGED storeVars

Next == FromFile \/ FromDict \/ ToFile \/ Split

Spec == Init /\ [][Next]_vars

----------------------------------------------------------------------------
(* class TaskManager: the lane directories below base_dir and their files *)

\* self.trash_dir.name
Trash == <<"T", "r", "a", "s", "h">>

\* Path.glob("*.md") on the names of a directory
MatchesMd(name) ==
    /\ Len(name) >= Len(MdSuffix)
    /\ SubSeq(name, Len(name) - Len(MdSuffix) + 1, Len(name)) = MdSuffix

\* Path.write_text
Put(files, p, text) ==
    [q \in DOMAIN files \cup {p} |-> IF q = p THEN text ELSE files[q]]

Remove(files, p) == [q \in DOMAIN files \ {p} |-> files[q]]

\* shutil.move of a file onto a file path: a file already at dst is replaced
Move(files, src, dst) == Put(Remove(files, src), dst, files[src])

\* The orders in which the members of a set can be listed
Orders(S) ==
    {q \in [1..Cardinality(S) -> S] :
        \A i, j \in 1..Cardinality(S) : q[i] = q[j] => i = j}

\* The tasks Task.from_file loads from the files lane_dir.glob("*.md") lists
LaneTasks(files, lane) ==
    {FromFileResult([parent |-> p.parent, name |-> p.name, text |-> files[p]]) :
        p \in {q \in DOMAIN files : q.parent = lane /\ MatchesMd(q.name)}}

\* The values of tasks_by_lane for the lanes listed in the given order
RECURSIVE LaneListings(_, _)
LaneListings(files, lanes) ==
    IF lanes = <<>> THEN {<<>>}
    ELSE {<<[lane |-> lanes[1], tasks |-> o]>> \o rest :
             o \in Orders(LaneTasks(files, lanes[1])),
             rest \in LaneListings(files, Tail(lanes))}

\* TaskManager.get_all_tasks: the values it can return, each the lanes in
\* dict order with the list of their tasks.  base_dir.iterdir() and
\* lane_dir.glob list in an order the operating system chooses.
GetAllTasks_WithTrash(files, ds) ==
    UNION {LaneListings(files, lo) : lo \in Orders(ds)}

GetAllTasks(files, ds) ==
    UNION {LaneListings(files, lo) : lo \in Orders(ds \ {Trash})}

\* new_task.to_file(self.base_dir) on the store st
WriteTask(st, new_task) ==
    LET f == ToFileResult(new_task)
    IN  [st EXCEPT !.files = Put(st.files, PathOf(f.parent, f.name), f.text),
                   !.dirs = st.dirs \cup {f.parent},
                   !.written = Append(st.written, f)]

RECURSIVE WriteTasks(_, _)
WriteTasks(st, new_tasks) ==
    IF new_tasks = <<>> THEN st
    ELSE WriteTasks(WriteTask(st, new_tasks[1]), Tail(new_tasks))

\* shutil.move(str(task.path), str(trash_path)) on the store st
MoveToTrash(st, src) ==
    IF src \notin DOMAIN st.files
    THEN [st EXCEPT !.raised = TRUE]
    ELSE [st EXCEPT !.files = Move(st.files, src, PathOf(Trash, src.name))]

\* The body of the inner loop of split_tasks; raised is TRUE once split or
\* shutil.move has raised, which ends the call
SplitOne_SkipEmpty(st, t) ==
    LET NonEmpty(new_task) == new_task.content # <<>>
    IN  IF st.raised \/ ~Contains(t.content, SplitMarker) THEN st
        ELSE IF IsNone(t.path) THEN [st EXCEPT !.raised = TRUE]
        ELSE MoveToTrash(
                 WriteTasks(st, SelectSeq(SplitResult(t).tasks, NonEmpty)),
                 Get(t.path))

SplitOne_KeepOriginal(st, t) ==
    IF st.raised \/ ~Contains(t.content, SplitMarker) THEN st
    ELSE IF IsNone(t.path) THEN [st EXCEPT !.raised = TRUE]
    ELSE WriteTasks(st, SplitResult(t).tasks)

SplitOne(st, t) ==
    IF st.raised \/ ~Contains(t.content, SplitMarker) THEN st
    ELSE IF IsNone(t.path) THEN [st EXCEPT !.raised = TRUE]
    ELSE MoveToTrash(WriteTasks(st, SplitResult(t).tasks), Get(t.path))

RECURSIVE SplitLane(_, _)
SplitLane(st, tasks) ==
    IF tasks = <<>> THEN st
    ELSE SplitLane(SplitOne(st, tasks[1]), Tail(tasks))

RECURSIVE SplitLanes(_, _)
SplitLanes(st, tasks_by_lane) ==
    IF tasks_by_lane = <<>> THEN st
    ELSE SplitLanes(SplitLane(st, tasks_by_lane[1].tasks), Tail(tasks_by_lane))

\* TaskManager.split_tasks once get_all_tasks has returned tasks_by_lane
SplitTasksResult(files, ds, tasks_by_lane) ==
    SplitLanes([files |-> files, dirs |-> ds, written |-> <<>>,
                raised |-> FALSE],
               tasks_by_lane)

\* tag_counts[tag] = tag_counts.get(tag, 0) + 1 for the tags of one task
RECURSIVE CountTags(_, _)
CountTags(tag_counts, tags) ==
    IF tags = <<>> THEN tag_counts
    ELSE CountTags([g \in DOMAIN tag_counts \cup {tags[1]} |->
                       (IF g \in DOMAIN tag_counts THEN tag_counts[g] ELSE 0)
                       + (IF g = tags[1] THEN 1 ELSE 0)],
                   Tail(tags))

RECURSIVE CountLane(_, _)
CountLane(tag_counts, tasks) ==
    IF tasks = <<>> THEN tag_counts
    ELSE CountLane(CountTags(tag_counts, Get(tasks[1].tags)), Tail(tasks))

RECURSIVE CountLanes(_, _)
CountLanes(tag_counts, tasks_by_lane) ==
    IF tasks_by_lane = <<>> THEN tag_counts
    ELSE CountLanes(CountLane(tag_counts, tasks_by_lane[1].tasks),
                    Tail(tasks_by_lane))

\* TaskManager.calculate_statistics once get_all_tasks has returned
\* tasks_by_lane
CalculateStatisticsResult(tasks_by_lane) ==
    [num_lanes |-> Len(tasks_by_lane),
     tasks_per_lane |->
         [l \in {tasks_by_lane[i].lane : i \in DOMAIN tasks_by_lane} |->
             Len(tasks_by_lane[CHOOSE i \in DOMAIN tasks_by_lane :
                                   tasks_by_lane[i].lane = l].tasks)],
     tag_counts |-> CountLanes(<<>>, tasks_by_lane)]

\* The lanes in which the loop of change_lane can find the file of the
\* task: base_dir.iterdir() lists the directories in an order the operating
\* system chooses, and the loop stops at the first that has the file
FoundIn(files, ds, task_title) ==
    {lane \in ds \ {Trash} : PathOf(lane, task_title \o MdSuffix) \in DOMAIN files}

\* TaskManager.change_lane(task_title, new_lane): the outcomes it can have,
\* with the lane it reports to have moved the task from
ChangeLaneResult_KeepSource(files, ds, task_title, new_lane) ==
    IF FoundIn(files, ds, task_title) = {}
    THEN {[files |-> files, dirs |-> ds, task_found |-> FALSE, from |-> None]}
    ELSE {[files |-> Put(files, PathOf(new_lane, task_title \o MdSuffix),
                         files[PathOf(lane_dir, task_title \o MdSuffix)]),
           dirs |-> ds \cup {new_lane},
           task_found |-> TRUE,
           from |-> Some(lane_dir)] : lane_dir \in FoundIn(files, ds, task_title)}

ChangeLaneResult_MkdirFirst(files, ds, task_title, new_lane) ==
    IF FoundIn(files, ds, task_title) = {}
    THEN {[files |-> files, dirs |-> ds \cup {new_lane}, task_found |-> FALSE,
           from |-> None]}
    ELSE {[files |-> Move(files, PathOf(lane_dir, task_title \o MdSuffix),
                          PathOf(new_lane, task_title \o MdSuffix)),
           dirs |-> ds \cup {new_lane},
           task_found |-> TRUE,
           from |-> Some(lane_dir)] : lane_dir \in FoundIn(files, ds, task_title)}

ChangeLaneResult(files, ds, task_title, new_lane) ==
    IF FoundIn(files, ds, task_title) = {}
    THEN {[files |-> files, dirs |-> ds, task_found |-> FALSE, from |-> None]}
    ELSE {[files |-> Move(files, PathOf(lane_dir, task_title \o MdSuffix),
                          PathOf(new_lane, task_title \o MdSuffix)),
           dirs |-> ds \cup {new_lane},
           task_found |-> TRUE,
           from |-> Some(lane_dir)] : lane_dir \in FoundIn(files, ds, task_title)}

\* [tag.strip() for tag in row['tag_list'].split(',')]
CsvTags(tag_list) ==
    LET parts == StrSplit(tag_list, <<",">>)
    IN  [i \in 1..Len(parts) |-> Strip(parts[i])]

\* The body of the loop of create_tasks_from_csv for one row of the reader.
\* The value of task.add_tag_lines_to_task_content() is dropped, so the call
\* changes nothing.
CreateTaskFromRow(st, row) ==
    WriteTask(st, Task(row.title, row.task, row.lane,
                       Some(PathOf(row.lane, row.title \o MdSuffix)),
                       Some(CsvTags(row.tag_list)), None))

\* TaskManager.create_tasks_from_csv on the rows csv.DictReader yields
RECURSIVE CreateTasksFromCsvResult(_, _)
CreateTasksFromCsvResult(st, rows) ==
    IF rows = <<>> THEN st
    ELSE CreateTasksFromCsvResult(CreateTaskFromRow(st, rows[1]), Tail(rows))

----------------------------------------------------------------------------
(* mcp_task_service.server: update_task *)

\* [t.strip() for t in tags.split(',') if t.strip()]
ParseTags(tags) ==
    LET parts == StrSplit(tags, <<",">>)
        stripped == [i \in 1..Len(parts) |-> Strip(parts[i])]
        NonEmpty(t) == t # <<>>
    IN  SelectSeq(stripped, NonEmpty)

\* The tasks of all lanes in the order the two loops of update_task visit
RECURSIVE AllTasks(_)
AllTasks(tasks_by_lane) ==
    IF tasks_by_lane = <<>> THEN <<>>
    ELSE tasks_by_lane[1].tasks \o AllTasks(Tail(tasks_by_lane))

\* task_to_update: the first task with the title, None when there is none
TaskToUpdate(tasks_by_lane, task_title) ==
    LET HasTitle(t) == t.title = task_title
        found == SelectSeq(AllTasks(tasks_by_lane), HasTitle)
    IN  IF found = <<>> THEN None ELSE Some(found[1])

\* The fields of the task after the "Update fields" part of update_task; the
\* arguments are Optional (None: not given).  due_date is the new value
\* wrapped once more, None when strptime raised ValueError.
UpdatedFields(t, a) ==
    [title |-> IF IsSome(a.new_title) THEN Get(a.new_title) ELSE t.title,
     content |-> IF IsSome(a.content) THEN Get(a.content) ELSE t.content,
     lane |-> t.lane,
     path |-> IF IsSome(a.new_title)
              THEN Some(PathOf(Get(t.path).parent,
                               Get(a.new_title) \o MdSuffix))
              ELSE t.path,
     tags |-> IF IsSome(a.tags) THEN Some(ParseTags(Get(a.tags))) ELSE t.tags,
     due_date |-> IF IsNone(a.due_date) THEN Some(t.due_date)
                  ELSE IF Get(a.due_date) = <<>> THEN Some(None)
                  ELSE IF IsSome(Strptime(Get(a.due_date)))
                       THEN Some(Strptime(Get(a.due_date)))
                       ELSE None]

\* to_file of the updated task, then old_path.unlink() when new_title is
\* given and not empty and old_path exists
SaveUpdated(st, t, old_path, new_title) ==
    LET w == WriteTask(st, t)
    IN  IF Truthy(new_title) /\ old_path \in DOMAIN w.files
        THEN [w EXCEPT !.files = Remove(w.files, old_path)]
        ELSE w

\* update_task(task_title, content, tags, new_title, due_date) once
\* get_all_tasks has returned tasks_by_lane; a holds the arguments
UpdateTaskResult(files, ds, tasks_by_lane, a) ==
    LET st == [files |-> files, dirs |-> ds, written |-> <<>>]
        found == TaskToUpdate(tasks_by_lane, a.task_title)
    IN  IF IsNone(found)
        THEN [st |-> st, task |-> None, pc |-> "update_task_not_found"]
        ELSE LET u == UpdatedFields(Get(found), a)
             IN  IF IsNone(u.due_date)
                 THEN [st |-> st, task |-> None, pc |-> "update_task_bad_date"]
                 ELSE LET t == [u EXCEPT !.due_date = Get(u.due_date)]
                      IN  [st |-> SaveUpdated(st, t, Get(Get(found).path),
                                              a.new_title),
                           task |-> Some(t),
                           pc |-> "update_task"]

----------------------------------------------------------------------------
(* The stores the operations of TaskManager start from *)

MaxFiles == 2        \* files below base_dir before the first operation

OtherLane == <<"d", "o", "i", "n", "g">>

StoreLanes == {TheLane, OtherLane}

\* The name of the first fragment of the task TheTitle
FirstName == <<"1", "-">> \o TheTitle \o MdSuffix

StoreTexts ==
    { <<"b">>,
      SplitMarker \o <<"b">>,
      TagOpen \o <<"a", "]", NL, NL, "b">> \o SplitMarker \o <<"c">>,
      TagOpen \o <<"a", "]", NL>> \o TagOpen \o <<"b", "]", NL>>
          \o DueOpen \o GoodDate \o <<"]", NL, NL, "b">> }

\* Two files of one lane, the second under the name of a fragment of the
\* first; a file of the same name in another lane and one in Trash
StorePaths ==
    { PathOf(TheLane, TheTitle \o MdSuffix), PathOf(TheLane, FirstName),
      PathOf(OtherLane, TheTitle \o MdSuffix),
      PathOf(Trash, TheTitle \o MdSuffix) }

\* A lane that does not exist before the first operation
DoneLane == <<"d", "o", "n", "e">>

\* The arguments of change_lane
ChangeTitles == {TheTitle, Stem(FirstName)}

NewLanes == {OtherLane}

InitStores ==
    UNION {[P -> StoreTexts] :
              P \in {Q \in SUBSET StorePaths : Cardinality(Q) <= MaxFiles}}

\* The state after TaskManager(config): Trash exists, and so does every
\* directory that holds a file
StoreInit ==
    /\ pc = "init"
    /\ steps = 0
    /\ task = None /\ file = None /\ saved = None /\ raw = None
    /\ dict = None /\ frags = <<>>
    /\ stats = None
    /\ written = <<>>
    /\ call = None
    /\ config = None /\ cfile = None
    /\ fs \in InitStores
    /\ dirs \in {{Trash} \cup D : D \in SUBSET StoreLanes}
    /\ \A p \in DOMAIN fs : p.parent \in dirs

\* manager.split_tasks()
SplitTasks ==
    /\ steps < MaxSteps
    /\ \E tasks_by_lane \in GetAllTasks(fs, dirs) :
           \E r \in {SplitTasksResult(fs, dirs, tasks_by_lane)} :
               /\ fs' = r.files
               /\ dirs' = r.dirs
               /\ written' = r.written
               /\ pc' = IF r.raised THEN "split_tasks_raised"
                        ELSE "split_tasks"
    /\ call' = None
    /\ steps' = steps + 1
    /\ UNCHANGED configVars
    /\ UNCHANGED <<stats, taskVars>>

\* stats = manager.calculate_statistics()
CalculateStatistics ==
    /\ steps < MaxSteps
    /\ \E tasks_by_lane \in GetAllTasks(fs, dirs) :
           stats' = Some(CalculateStatisticsResult(tasks_by_lane))
    /\ pc' = "calculate_statistics"
    /\ call' = None
    /\ steps' = steps + 1
    /\ UNCHANGED configVars
    /\ UNCHANGED <<fs, dirs, written, taskVars>>

\* manager.change_lane(task_title, new_lane)
ChangeLane ==
    /\ steps < MaxSteps
    /\ \E task_title \in ChangeTitles, new_lane \in NewLanes :
           \E r \in ChangeLaneResult(fs, dirs, task_title, new_lane) :
                  /\ call' = Some([task_title |-> task_title,
                                   new_lane |-> new_lane, from |-> r.from])
                  /\ fs' = r.files
                  /\ dirs' = r.dirs
                  /\ pc' = IF r.task_found THEN "change_lane"
                           ELSE "change_lane_not_found"
    /\ written' = <<>>
    /\ steps' = steps + 1
    /\ UNCHANGED configVars
    /\ UNCHANGED <<stats, taskVars>>

StoreNext == SplitTasks \/ CalculateStatistics

\* A caller that splits and moves tasks between lanes
LaneNext == SplitTasks \/ ChangeLane

SpecLanes == StoreInit /\ [][LaneNext]_vars

SpecStore == StoreInit /\ [][StoreNext]_vars

\* The arguments of update_task: the fields to change, and the new title
FieldChanges ==
    { <<None, None, None>>,
      <<Some(<<"c">>), Some(<<"a", ",", " ", "b">>), Some(GoodDate)>>,
      <<None, Some(<<>>), Some(<<>>)>>,
      <<None, None, Some(BadDate)>> }

NewTitles == {None, Some(TheTitle), Some(Stem(FirstName))}

UpdateCalls ==
    { [task_title |-> TheTitle, content |-> f[1], tags |-> f[2],
       new_title |-> nt, due_date |-> f[3]] :
          f \in FieldChanges, nt \in NewTitles }

\* The rows of the files given to create_tasks_from_csv
Row(title, tag_list, text, lane) ==
    [title |-> title, tag_list |-> tag_list, task |-> text, lane |-> lane]

CsvFiles ==
    { << Row(TheTitle, <<>>, <<"c">>, TheLane) >>,
      << Row(TheTitle, <<"a", ",", " ", "b">>, <<"c">>, DoneLane) >>,
      << Row(Stem(FirstName), <<"a">>, <<"c">>, TheLane),
         Row(TheTitle, <<>>, <<"b">>, OtherLane) >> }

\* update_task(task_title, content, tags, new_title, due_date)
UpdateTask ==
    /\ steps < MaxSteps
    /\ \E a \in UpdateCalls :
           \E tasks_by_lane \in GetAllTasks(fs, dirs) :
               \E r \in {UpdateTaskResult(fs, dirs, tasks_by_lane, a)} :
                   /\ call' = Some(a)
                   /\ fs' = r.st.files
                   /\ dirs' = r.st.dirs
                   /\ written' = r.st.written
                   /\ task' = r.task
                   /\ pc' = r.pc
    /\ steps' = steps + 1
    /\ UNCHANGED configVars
    /\ UNCHANGED <<stats, file, saved, raw, dict, frags>>

\* manager.create_tasks_from_csv(csv_path)
CreateTasksFromCsv ==
    /\ steps < MaxSteps
    /\ \E rows \in CsvFiles :
           \E r \in {CreateTasksFromCsvResult(
                         [files |-> fs, dirs |-> dirs, written |-> <<>>],
                         rows)} :
               /\ call' = Some(rows)
               /\ fs' = r.files
               /\ dirs' = r.dirs
               /\ written' = r.written
    /\ pc' = "create_tasks_from_csv"
    /\ steps' = steps + 1
    /\ UNCHANGED configVars
    /\ UNCHANGED <<stats, taskVars>>

\* A caller that imports tasks and edits them through the service
EditNext == UpdateTask \/ CreateTasksFromCsv

SpecEdit == StoreInit /\ [][EditNext]_vars

----------------------------------------------------------------------------
(* class Config: the configuration object and its JSON file *)

\* The names bound in the module task_lib.config: its imports and its class
ModuleNames == {"json", "Path", "Optional", "Dict", "Config"}

\* Evaluating a global name raises NameError unless the module binds it
RaisesNameError(name) == name \notin ModuleNames

\* The home directory and the working directory of the process
Home == <<"/", "h">>

Cwd == <<"/", "w">>

\* Path(s).expanduser()
ExpandUser(s) ==
    IF s = <<"~">> THEN Home
    ELSE IF HasAt(s, <<"~", "/">>, 1) THEN Home \o SubSeq(s, 2, Len(s))
    ELSE s

\* Path(s).resolve() for a path without symbolic links and ".." parts
Resolve(s) ==
    IF HasAt(s, <<"/">>, 1) THEN s
    ELSE IF s = <<".">> THEN Cwd
    ELSE Cwd \o <<"/">> \o s

\* The text open(config_path, 'w') leaves before anything is written
EmptyText == <<>>

\* The defaults Config.__init__ sets
DefaultModel == <<"g", "p", "t", "-", "3", ".", "5", "-", "t", "u", "r", "b", "o">>

DefaultConfig ==
    [base_dir |-> <<".">>, openai_api_key |-> None, openai_model |-> DefaultModel]

\* Config.to_dict: None stands for the NameError that ends it
ToDict(self) ==
    LET result == [base_dir |-> Some(self.base_dir),
                   openai |-> Some([api_key |-> self.openai_api_key,
                                    model |-> Some(self.openai_model)])]
    IN  IF RaisesNameError("logging") THEN None ELSE Some(result)

\* Config.save_config: the text of the file afterwards and whether the call
\* raised.  open(..., 'w') has emptied the file when to_dict is evaluated.
SaveConfigResult(self) ==
    IF IsNone(ToDict(self))
    THEN [text |-> EmptyText, raised |-> TRUE]
    ELSE [text |-> Get(ToDict(self)), raised |-> RaisesNameError("logging")]

\* Config(config_path): the object constructed, None when load_config
\* raised.  doc is the file: None when it does not exist, EmptyText when
\* json.load finds no value, otherwise the mapping json.load returns, whose
\* fields are None for a key that is absent or null.
LoadConfigResult(doc) ==
    IF IsNone(doc) THEN None
    ELSE IF Get(doc) = EmptyText THEN None
    ELSE LET config_data == Get(doc)
             with_dir ==
                 IF IsSome(config_data.base_dir)
                 THEN [DefaultConfig EXCEPT
                          !.base_dir =
                              Resolve(ExpandUser(Get(config_data.base_dir)))]
                 ELSE DefaultConfig
         IN  IF IsSome(config_data.base_dir) /\ RaisesNameError("logging")
             THEN None
             ELSE IF IsSome(config_data.openai)
                  THEN Some([with_dir EXCEPT
                                !.openai_api_key = Get(config_data.openai).api_key,
                                !.openai_model =
                                    IF IsSome(Get(config_data.openai).model)
                                    THEN Get(Get(config_data.openai).model)
                                    ELSE with_dir.openai_model])
                  ELSE Some(with_dir)

\* The Config objects a caller can hold and the files it can find
BaseDirs == { <<".">>, <<"/", "d">>, <<"~", "/", "k">> }

ApiKeys == Optional({ <<"k">> })

Models == { DefaultModel, <<"m">> }

InitConfigs ==
    { [base_dir |-> b, openai_api_key |-> k, openai_model |-> m] :
        b \in BaseDirs, k \in ApiKeys, m \in Models }

InitConfigFiles ==
    {None, Some(EmptyText)}
    \cup { Some([base_dir |-> b, openai |-> o]) :
              b \in Optional(BaseDirs),
              o \in Optional({ [api_key |-> k, model |-> m] :
                                  k \in ApiKeys, m \in Optional({<<"m">>}) }) }

ConfigInit ==
    /\ pc = "init"
    /\ steps = 0
    /\ task = None /\ file = None /\ saved = None /\ raw = None
    /\ dict = None /\ frags = <<>>
    /\ fs = <<>> /\ dirs = {} /\ stats = None /\ written = <<>>
    /\ call = None
    /\ config \in {Some(x) : x \in InitConfigs}
    /\ cfile \in InitConfigFiles

\* config.save_config(config_path)
SaveConfig ==
    /\ steps < MaxSteps
    /\ IsSome(config)
    /\ \E r \in {SaveConfigResult(Get(config))} :
           /\ cfile' = Some(r.text)
           /\ pc' = IF r.raised THEN "save_config_raised" ELSE "save_config"
    /\ steps' = steps + 1
    /\ UNCHANGED <<config, taskVars, storeVars>>

\* config = Config(config_path)
NewConfig ==
    /\ steps < MaxSteps
    /\ \E r \in {LoadConfigResult(cfile)} :
           /\ config' = IF IsSome(r) THEN r ELSE config
           /\ pc' = IF IsSome(r) THEN "config" ELSE "config_raised"
    /\ steps' = steps + 1
    /\ UNCHANGED <<cfile, taskVars, storeVars>>

ConfigNext == SaveConfig \/ NewConfig

SpecConfig == ConfigInit /\ [][ConfigNext]_vars

----------------------------------------------------------------------------
(* Vocabulary of the properties *)

\* The lines of a text
Lines(text) == StrSplit(text, <<NL>>)

\* The line is one annotation and nothing else: open, a value without "]",
\* and the closing bracket
IsAnnotationLine(line, open) ==
    Len(line) > 0 /\ MatchEnd(line, open, 1) = Len(line)

\* The whole text of an annotation line between its opening and its closing
\* bracket
WholeValue(line, open) == SubSeq(line, Len(open) + 1, Len(line) - 1)

\* The line holds an annotation somewhere
HasAnnotation(line, open) == \E i \in 1..Len(line) : MatchEnd(line, open, i) # 0

\* Positions where the split marker occurs (occurrences cannot overlap)
Occurrences(s) == {p \in 1..Len(s) : HasAt(s, SplitMarker, p)}

\* Position of the n-th occurrence of the marker
NthOccurrence(s, n) ==
    CHOOSE p \in Occurrences(s) :
        Cardinality({q \in Occurrences(s) : q < p}) = n - 1

\* The i-th segment of s between markers, i in 1..k+1 for k occurrences
Segment(s, i) ==
    LET k == Cardinality(Occurrences(s))
        from == IF i = 1 THEN 1 ELSE NthOccurrence(s, i - 1) + Len(SplitMarker)
        to == IF i = k + 1 THEN Len(s) ELSE NthOccurrence(s, i) - 1
    IN  SubSeq(s, from, to)

\* The state right after Task.from_file read a file
Loaded == pc = "from_file"

\* The state right after Task.split returned for a task with the marker
SplitDone == pc = "split" /\ Contains(Get(task).content, SplitMarker)

----------------------------------------------------------------------------
(* Properties *)

\* C1: a task written by to_file and read back by from_file has the same
\* tags in the same order, the same due date and the same body up to
\* trimming, provided no line of the body holds a [tag:...] or [due:...]
\* annotation and the tags are a list of tags without "]".
C1_RoundTrip ==
    (/\ Loaded
     /\ IsSome(saved)
     /\ IsSome(Get(saved).tags)
     /\ \A i \in 1..Len(Get(Get(saved).tags)) :
            \A j \in 1..Len(Get(Get(saved).tags)[i]) :
                Get(Get(saved).tags)[i][j] # "]"
     /\ \A i \in 1..Len(Lines(Get(saved).content)) :
            /\ ~HasAnnotation(Lines(Get(saved).content)[i], TagOpen)
            /\ ~HasAnnotation(Lines(Get(saved).content)[i], DueOpen))
    => /\ Get(task).tags = Get(saved).tags
       /\ Get(task).due_date = Get(saved).due_date
       /\ Strip(Get(task).content) = Strip(Get(saved).content)

\* C2: no line of the content of a task returned by from_file or from_dict
\* is a tag annotation line or a due-date annotation line.
C2_ContentInvariant ==
    (pc \in {"from_file", "from_dict"} /\ IsSome(task))
    => \A i \in 1..Len(Lines(Get(task).content)) :
           /\ ~IsAnnotationLine(Lines(Get(task).content)[i], TagOpen)
           /\ ~IsAnnotationLine(Lines(Get(task).content)[i], DueOpen)

C4_SplitIdentity ==
    [][(/\ pc' \in {"split", "split_raised"}
        /\ ~Contains(Get(task).content, SplitMarker))
       => (pc' = "split" /\ frags' = <<Get(task)>> /\ task' = task)]_vars

C4_Witness ==
    /\ pc = "split"
    /\ ~Contains(Get(task).content, SplitMarker)
    /\ IsNone(Get(task).path)
    /\ IsSome(Get(task).due_date)
    /\ frags = <<Get(task)>>

\* C5: every fragment split returns for a task with the marker has the
\* original tags in their order (none when they are absent or empty)
\* followed by the tag "multi-story feature".
C5_SplitTagAugmentation ==
    SplitDone
    => LET t == Get(task)
           original == IF IsNone(t.tags) THEN <<>> ELSE Get(t.tags)
       IN  \A i \in 1..Len(frags) :
               frags[i].tags = Some(original \o <<SplitTag>>)

C5_Witness ==
    /\ SplitDone
    /\ Len(frags) >= 2
    /\ IsSome(Get(task).tags)
    /\ Len(Get(Get(task).tags)) = 2
    /\ Get(Get(task).tags)[1] # Get(Get(task).tags)[2]
    /\ Len(Get(frags[2].tags)) = 3

\* C6: every fragment split returns for a task with the marker has the due
\* date of the task (absent when it has none) and its lane.
C6_SplitInheritance ==
    SplitDone
    => \A i \in 1..Len(frags) :
           /\ frags[i].due_date = Get(task).due_date
           /\ frags[i].lane = Get(task).lane

C6_Witness ==
    /\ SplitDone
    /\ Len(frags) >= 2
    /\ IsSome(Get(task).due_date)
    /\ frags[2].due_date = Get(task).due_date

\* C7: from_file returns one tag per tag annotation line, in order of
\* appearance, each the whole text between "tag:" and the closing bracket,
\* trimmed.  Stated for the texts where every line that holds a tag
\* annotation is one annotation and nothing else.
C7_TagDecoding ==
    (/\ Loaded
     /\ \A i \in 1..Len(Lines(Get(raw))) :
            HasAnnotation(Lines(Get(raw))[i], TagOpen)
            => IsAnnotationLine(Lines(Get(raw))[i], TagOpen))
    => LET IsTagLine(line) == IsAnnotationLine(line, TagOpen)
           tag_lines == SelectSeq(Lines(Get(raw)), IsTagLine)
       IN  Get(task).tags =
               Some([i \in 1..Len(tag_lines) |->
                        Strip(WholeValue(tag_lines[i], TagOpen))])

\* C8: the content from_file returns has no leading and no trailing
\* whitespace.
C8_BodyTrimmed ==
    Loaded => Get(task).content = Strip(Get(task).content)

\* C9: from_file does not fail on a due annotation whose value does not
\* parse; when no due annotation parses the due date is absent; and no
\* line of the content begins with a due annotation, so a malformed due
\* line is removed.  The value of a due annotation is the text from_file
\* hands to strptime.
C9_MalformedDueDate ==
    Loaded
    => LET lines == Lines(Get(raw))
           Parses(line) ==
               /\ HasAnnotation(line, DueOpen)
               /\ IsSome(Strptime(AnnotationValue(FindAll(line, DueOpen)[1])))
       IN  /\ IsSome(task)
           /\ (\A i \in 1..Len(lines) : ~Parses(lines[i]))
                  => IsNone(Get(task).due_date)
           /\ \A i \in 1..Len(Lines(Get(task).content)) :
                  ~ReMatch(Lines(Get(task).content)[i], DueOpen)

C9_Witness ==
    /\ Loaded
    /\ \E i \in 1..Len(Lines(Get(raw))) :
           Lines(Get(raw))[i] = DueOpen \o BadDate \o <<"]">>
    /\ IsNone(Get(task).due_date)
    /\ Get(task).content = <<"b">>

IsoDate(date) ==
    << Digit(date.y \div 1000), Digit((date.y \div 100) % 10),
       Digit((date.y \div 10) % 10), Digit(date.y % 10), "-",
       Digit(date.m \div 10), Digit(date.m % 10), "-",
       Digit(date.d \div 10), Digit(date.d % 10) >>

\* The annotation lines a task stands for
TagLinesOf(t) ==
    LET tags == IF IsSome(t.tags) THEN Get(t.tags) ELSE <<>>
    IN  [i \in 1..Len(tags) |-> TagOpen \o tags[i] \o <<"]">>]

DueLineOf(t) == DueOpen \o IsoDate(Get(t.due_date)) \o <<"]">>

\* A block of annotation lines with the blank line that ends it; nothing
\* when there is no line
Block(lines) == IF lines = <<>> THEN <<>> ELSE Join(lines, <<NL>>) \o <<NL, NL>>

IsTagLine(line) == IsAnnotationLine(line, TagOpen)

IsDueLine(line) == IsAnnotationLine(line, DueOpen)

Saved == pc = "to_file"

\* C11: the text to_file writes is the block of tag lines (one "[tag:<tag>]"
\* line per tag, in list order, joined by single newlines) when there are
\* tags, and the one "[due:YYYY-MM-DD]" line when a due date is set, each
\* block followed by exactly one blank line, and then the body unchanged;
\* when no line of the body holds an annotation, these are the only
\* annotation lines of the text.
C11_EncodingLayout ==
    Saved
    => LET t == Get(saved)
           text == Get(file).text
           T == Block(TagLinesOf(t))
           D == IF IsSome(t.due_date) THEN Block(<<DueLineOf(t)>>) ELSE <<>>
           body == Lines(t.content)
       IN  /\ text \in {T \o D \o t.content, D \o T \o t.content}
           /\ (\A i \in 1..Len(body) :
                   /\ ~HasAnnotation(body[i], TagOpen)
                   /\ ~HasAnnotation(body[i], DueOpen))
              => /\ SelectSeq(Lines(text), IsTagLine) = TagLinesOf(t)
                 /\ SelectSeq(Lines(text), IsDueLine) =
                        IF IsSome(t.due_date) THEN <<DueLineOf(t)>> ELSE <<>>

C11_Witness ==
    /\ Saved
    /\ Len(TagLinesOf(Get(saved))) = 2
    /\ IsSome(Get(saved).due_date)
    /\ Get(saved).content = <<"b", NL>>
    /\ Len(Lines(Get(file).text)) = 7

\* C12: for a task with no due date whose tags are None or the empty list,
\* to_file writes exactly the content of the task.
C12_EncodingIdentity ==
    (/\ Saved
     /\ IsNone(Get(saved).due_date)
     /\ Get(saved).tags \in {None, Some(<<>>)})
    => Get(file).text = Get(saved).content

C12_Witness ==
    /\ Saved
    /\ IsNone(Get(saved).due_date)
    /\ Get(saved).tags = Some(<<>>)
    /\ Get(saved).content = <<" ", "b">>
    /\ Get(file).text = <<" ", "b">>

FromDictDone == pc = "from_dict"

HasRequiredKeys(d) == IsSome(d.title) /\ IsSome(d.content) /\ IsSome(d.lane)

\* C13: from_dict on a mapping that lacks title, content or lane returns
\* None; a task it returns was built from a mapping with all three.
C13_MissingField ==
    FromDictDone => (IsSome(task) <=> HasRequiredKeys(Get(dict)))

C13_Witness ==
    /\ FromDictDone
    /\ IsNone(Get(dict).lane)
    /\ IsSome(Get(dict).title)
    /\ IsSome(Get(dict).content)
    /\ IsSome(Get(dict).tags)
    /\ IsSome(Get(dict).due_date)
    /\ IsNone(task)

\* C14: from_dict on a mapping with title, content and lane whose due_date
\* string does not parse returns a task without a due date whose title,
\* lane and tags are the supplied ones.
C14_BadDueDateString ==
    (/\ FromDictDone
     /\ HasRequiredKeys(Get(dict))
     /\ IsSome(Get(dict).due_date)
     /\ IsNone(Strptime(Get(Get(dict).due_date))))
    => /\ IsSome(task)
       /\ IsNone(Get(task).due_date)
       /\ Get(task).title = Get(Get(dict).title)
       /\ Get(task).lane = Get(Get(dict).lane)
       /\ Get(task).tags = Get(dict).tags

C14_Witness ==
    /\ FromDictDone
    /\ Get(dict).due_date = Some(BadDate)
    /\ Get(dict).tags = Some(<< <<"a">> >>)
    /\ IsSome(task)
    /\ IsNone(Get(task).due_date)
    /\ Get(task).tags = Some(<< <<"a">> >>)

\* C15 as claimed: for every mapping with title, content and lane, the task
\* from_dict returns has the supplied title, lane and tags, and the supplied
\* content string as given.
C15_ContentAsGiven ==
    (FromDictDone /\ HasRequiredKeys(Get(dict)))
    => /\ IsSome(task)
       /\ Get(task).title = Get(Get(dict).title)
       /\ Get(task).lane = Get(Get(dict).lane)
       /\ Get(task).tags = Get(dict).tags
       /\ Get(task).content = Get(Get(dict).content)

\* The text has no white space at either end and no line that begins with a
\* tag or due-date annotation
IsCleanContent(c) ==
    /\ c = <<>> \/ (~IsSpace(c[1]) /\ ~IsSpace(c[Len(c)]))
    /\ \A i \in 1..Len(Lines(c)) :
           /\ MatchEnd(Lines(c)[i], TagOpen, 1) = 0
           /\ MatchEnd(Lines(c)[i], DueOpen, 1) = 0

\* C15 as amended: for every mapping with title, content and lane, the task
\* from_dict returns has the supplied title, lane and tags (no tag is
\* decoded from the content), and the supplied content string as given
\* when that string has no white space at either end and no line that
\* begins with a tag or due-date annotation.
C15_CleanContentAsGiven ==
    (FromDictDone /\ HasRequiredKeys(Get(dict)))
    => /\ IsSome(task)
       /\ Get(task).title = Get(Get(dict).title)
       /\ Get(task).lane = Get(Get(dict).lane)
       /\ Get(task).tags = Get(dict).tags
       /\ IsCleanContent(Get(Get(dict).content))
          => Get(task).content = Get(Get(dict).content)

C15_Witness ==
    /\ FromDictDone
    /\ Get(dict).content = Some(<<"b">> \o TagOpen \o <<"a", "]">>)
    /\ IsNone(Get(dict).tags)
    /\ IsSome(task)
    /\ IsNone(Get(task).tags)
    /\ Get(task).content = <<"b">> \o TagOpen \o <<"a", "]">>

\* C19: a call of Task.split, with or without a marker in the content,
\* leaves every field of the task it is called on as it was and writes,
\* moves and deletes no file.
C19_SplitIsPure ==
    [][(pc' \in {"split", "split_raised"} /\ steps' # steps)
       => (task' = task /\ file' = file /\ fs' = fs /\ dirs' = dirs)]_vars

C19_Witness ==
    /\ SplitDone
    /\ Len(frags) = 2
    /\ Get(task).tags = Some(<< <<"a">> >>)
    /\ frags[1].tags = Some(<< <<"a">>, SplitTag >>)
    /\ IsSome(file)

\* The file stored at the path p
FileAt(files, p) == [parent |-> p.parent, name |-> p.name, text |-> files[p]]

\* The task stored at the path p, as Task.from_file loads it
StoredTask(files, p) == FromFileResult(FileAt(files, p))

\* The paths of the files stored in lanes
LanePaths(files) == {p \in DOMAIN files : p.parent # Trash}

\* The sum of the values of a mapping
RECURSIVE SumValues(_)
SumValues(f) ==
    IF DOMAIN f = {} THEN 0
    ELSE LET x == CHOOSE y \in DOMAIN f : TRUE
         IN  f[x] + SumValues([y \in DOMAIN f \ {x} |-> f[y]])

\* The name of the file of the i-th fragment of the task t
FragmentName(t, i) == IntStr(i) \o <<"-">> \o t.title \o MdSuffix

StatsDone == pc = "calculate_statistics"

\* C16: in what calculate_statistics returns, num_lanes is the number of
\* lane directories (Trash not counted), tasks_per_lane gives for each lane
\* the number of its tasks, so that its values sum to the number of tasks
\* stored outside Trash, and the values of tag_counts sum to the number of
\* (task, tag) occurrences of those tasks.
C16_Aggregation ==
    StatsDone
    => LET s == Get(stats)
           lanes == dirs \ {Trash}
           stored == LanePaths(fs)
       IN  /\ s.num_lanes = Cardinality(lanes)
           /\ DOMAIN s.tasks_per_lane = lanes
           /\ \A l \in lanes :
                  s.tasks_per_lane[l] =
                      Cardinality({p \in stored : p.parent = l})
           /\ SumValues(s.tasks_per_lane) = Cardinality(stored)
           /\ SumValues(s.tag_counts) =
                  SumValues([p \in stored |->
                                Len(Get(StoredTask(fs, p).tags))])

C16_Witness ==
    /\ StatsDone
    /\ PathOf(Trash, TheTitle \o MdSuffix) \in DOMAIN fs
    /\ Get(stats).num_lanes = 2
    /\ <<"a">> \in DOMAIN Get(stats).tag_counts
    /\ Get(stats).tag_counts[<<"a">>] = 2
    /\ \E p \in LanePaths(fs) : StoredTask(fs, p).tags = Some(<<>>)

NoDueDate == <<"N", "o", " ", "D", "u", "e", " ", "D", "a", "t", "e">>

\* The key under which a task is counted by due date
DueKey(t) == IF IsSome(t.due_date) THEN IsoDate(Get(t.due_date)) ELSE NoDueDate

\* C17: what calculate_statistics returns has a due_date_counts mapping in
\* which each due date, written YYYY-MM-DD, maps to the number of tasks with
\* that due date and "No Due Date" to the number of tasks without one; the
\* counts sum to the number of tasks.
C17_DueDateCounts ==
    StatsDone
    => /\ "due_date_counts" \in DOMAIN Get(stats)
       /\ LET counts == Get(stats).due_date_counts
              stored == LanePaths(fs)
          IN  /\ \A p \in stored :
                     /\ DueKey(StoredTask(fs, p)) \in DOMAIN counts
                     /\ counts[DueKey(StoredTask(fs, p))] =
                            Cardinality({q \in stored :
                                DueKey(StoredTask(fs, q)) =
                                    DueKey(StoredTask(fs, p))})
              /\ SumValues(counts) = Cardinality(stored)

\* C18: when split_tasks runs on a store, it raises no error, and for every
\* stored task whose content has an empty segment (the content begins or
\* ends with the marker, or two markers are adjacent) it writes k+1 files
\* for the k markers, one per segment under the name <i>-<title>.md; the
\* file written for an empty segment loads as a task with empty content.
C18_EmptyFragments ==
    [][(pc' \in {"split_tasks", "split_tasks_raised"} /\ steps' # steps)
       => /\ pc' = "split_tasks"
          /\ \A p \in LanePaths(fs) :
                 LET t == StoredTask(fs, p)
                     k == Cardinality(Occurrences(t.content))
                 IN  (/\ k >= 1
                      /\ \E i \in 1..(k + 1) : Segment(t.content, i) = <<>>)
                     => /\ Cardinality(
                               {j \in DOMAIN written' :
                                   /\ written'[j].parent = p.parent
                                   /\ \E i \in 1..(k + 1) :
                                          written'[j].name = FragmentName(t, i)})
                           = k + 1
                        /\ \A i \in 1..(k + 1) :
                               \E j \in DOMAIN written' :
                                   /\ written'[j].parent = p.parent
                                   /\ written'[j].name = FragmentName(t, i)
                                   /\ Segment(t.content, i) = <<>>
                                      => FromFileResult(written'[j]).content
                                             = <<>>]_vars

C18_Witness ==
    /\ pc = "split_tasks"
    /\ Len(written) = 2
    /\ written[1].name = FirstName
    /\ written[1].text = TagOpen \o SplitTag \o <<"]", NL, NL>>
    /\ FromFileResult(written[1]).content = <<>>
    /\ FromFileResult(written[2]).content = <<"b">>
    /\ PathOf(Trash, TheTitle \o MdSuffix) \in DOMAIN fs

\* C20: after split_tasks, for every task that was stored in a lane with
\* k >= 1 markers in its content, the original file is no longer in its
\* lane (no file of that name and text is there), a file of its name is in
\* Trash, and the lane holds the files 1-<title>.md .. (k+1)-<title>.md,
\* the i-th with the i-th segment as its content and with the tag lines of
\* the original file.
C20_StoreLevelSplit ==
    [][(pc' = "split_tasks" /\ steps' # steps)
       => \A p \in LanePaths(fs) :
              LET t == StoredTask(fs, p)
                  k == Cardinality(Occurrences(t.content))
              IN  k >= 1
                  => /\ p \notin DOMAIN fs' \/ fs'[p] # fs[p]
                     /\ PathOf(Trash, p.name) \in DOMAIN fs'
                     /\ \A i \in 1..(k + 1) :
                            LET q == PathOf(p.parent, FragmentName(t, i))
                            IN  /\ q \in DOMAIN fs'
                                /\ Strip(StoredTask(fs', q).content) =
                                       Strip(Segment(t.content, i))
                                /\ \A n \in 1..Len(Lines(fs[p])) :
                                       IsTagLine(Lines(fs[p])[n])
                                       => \E m \in 1..Len(Lines(fs'[q])) :
                                              Lines(fs'[q])[m] =
                                                  Lines(fs[p])[n]]_vars

\* C21: split_tasks leaves every stored task whose content has no marker
\* as it is: after the call its file is in the same lane with the same text,
\* whatever other tasks the call splits.
C21_SplitFrame ==
    [][(pc' = "split_tasks" /\ steps' # steps)
       => \A p \in LanePaths(fs) :
              ~Contains(StoredTask(fs, p).content, SplitMarker)
              => /\ p \in DOMAIN fs'
                 /\ fs'[p] = fs[p]]_vars

\* The name of the second fragment of the task TheTitle
SecondName == <<"2", "-">> \o TheTitle \o MdSuffix

\* C30: no file split_tasks writes for a fragment loads with the marker in
\* its content, after split_tasks no task stored in a lane has the marker in
\* its content, and a split_tasks call that follows immediately writes no
\* file and leaves the files and directories as they are.
C30_SplitFixpoint ==
    /\ [](pc = "split_tasks"
          => /\ \A j \in DOMAIN written :
                    ~Contains(FromFileResult(written[j]).content, SplitMarker)
             /\ \A p \in LanePaths(fs) :
                    ~Contains(StoredTask(fs, p).content, SplitMarker))
    /\ [][(pc = "split_tasks" /\ pc' = "split_tasks" /\ steps' # steps)
          => /\ fs' = fs
             /\ dirs' = dirs
             /\ written' = <<>>]_vars

C30_Witness ==
    /\ pc = "split_tasks"
    /\ steps = 2
    /\ written = <<>>
    /\ PathOf(TheLane, SecondName) \in DOMAIN fs
    /\ PathOf(Trash, TheTitle \o MdSuffix) \in DOMAIN fs

\* from_file takes a tag or a due date from the line
Contributes(line) ==
    \/ HasAnnotation(line, TagOpen)
    \/ /\ FindAll(line, DueOpen) # <<>>
       /\ IsSome(Strptime(AnnotationValue(FindAll(line, DueOpen)[1])))

\* C26: every line of the file from which from_file takes a tag or a due
\* date is absent from the content it returns, and every line that is absent
\* was one annotation and nothing else: a line with other text on it is
\* still a line of the content (lines compared up to surrounding white
\* space, which from_file trims).
C26_AnnotationLinesRemoved ==
    Loaded
    => \A i \in 1..Len(Lines(Get(raw))) :
           LET line == Lines(Get(raw))[i]
               kept == \E j \in 1..Len(Lines(Get(task).content)) :
                           Strip(Lines(Get(task).content)[j]) = Strip(line)
           IN  /\ Contributes(line) => ~kept
               /\ (/\ Strip(line) # <<>>
                   /\ ~IsAnnotationLine(line, TagOpen)
                   /\ ~IsAnnotationLine(line, DueOpen))
                  => kept

\* C28: when from_file has loaded a file that to_file wrote for a task whose
\* content has no annotation and no surrounding white space, writing the
\* loaded task with to_file gives the text of that file again, and loading
\* that gives the same content again.
C28_LoadSaveStable ==
    (/\ Loaded
     /\ IsSome(saved)
     /\ Get(file) = ToFileResult(Get(saved))
     /\ Get(saved).content = Strip(Get(saved).content)
     /\ \A i \in 1..Len(Lines(Get(saved).content)) :
            /\ ~HasAnnotation(Lines(Get(saved).content)[i], TagOpen)
            /\ ~HasAnnotation(Lines(Get(saved).content)[i], DueOpen))
    => /\ ToFileResult(Get(task)).text = Get(raw)
       /\ FromFileResult(ToFileResult(Get(task))).content = Get(task).content

\* A step of change_lane
ChangeLaneStep ==
    /\ pc' \in {"change_lane", "change_lane_not_found"}
    /\ steps' # steps

\* The path of the file of the task with the title in the lane
TaskPath(lane, title) == PathOf(lane, title \o MdSuffix)

\* C22 as stated: when the file of the task t is in a lane L other than
\* Trash and new_lane, then after change_lane(t, new_lane) L has no file
\* t.md, new_lane exists and has t.md with the text L had.
C22_LaneChange ==
    [][ChangeLaneStep
       => LET t == Get(call').task_title
              new_lane == Get(call').new_lane
          IN  \A L \in dirs \ {Trash, new_lane} :
                  TaskPath(L, t) \in DOMAIN fs
                  => /\ TaskPath(L, t) \notin DOMAIN fs'
                     /\ new_lane \in dirs'
                     /\ TaskPath(new_lane, t) \in DOMAIN fs'
                     /\ fs'[TaskPath(new_lane, t)] = fs[TaskPath(L, t)]]_vars

\* C22 amended: the same, when L is the only lane that has a file t.md.
C22_LaneChangeOfUniqueTask ==
    [][ChangeLaneStep
       => LET t == Get(call').task_title
              new_lane == Get(call').new_lane
          IN  \A L \in dirs \ {Trash, new_lane} :
                  (/\ TaskPath(L, t) \in DOMAIN fs
                   /\ \A K \in dirs \ {Trash, L} : TaskPath(K, t) \notin DOMAIN fs)
                  => /\ pc' = "change_lane"
                     /\ TaskPath(L, t) \notin DOMAIN fs'
                     /\ new_lane \in dirs'
                     /\ TaskPath(new_lane, t) \in DOMAIN fs'
                     /\ fs'[TaskPath(new_lane, t)] = fs[TaskPath(L, t)]]_vars

C22_Witness ==
    /\ pc = "change_lane"
    /\ steps = 1
    /\ Get(call).task_title = TheTitle
    /\ Get(call).from = Some(TheLane)
    /\ Get(call).new_lane = OtherLane
    /\ OtherLane \in dirs
    /\ fs[TaskPath(OtherLane, TheTitle)] = SplitMarker \o <<"b">>
    /\ TaskPath(TheLane, TheTitle) \notin DOMAIN fs
    /\ TaskPath(TheLane, Stem(FirstName)) \in DOMAIN fs

\* C23: when no lane has a file t.md, change_lane(t, new_lane) returns
\* normally and leaves the files and the directories as they are; new_lane
\* is not created.
C23_MissingTask ==
    [][ChangeLaneStep
       => LET t == Get(call').task_title
          IN  (\A L \in dirs \ {Trash} : TaskPath(L, t) \notin DOMAIN fs)
              => /\ pc' = "change_lane_not_found"
                 /\ fs' = fs
                 /\ dirs' = dirs]_vars

C23_Witness ==
    /\ pc = "change_lane_not_found"
    /\ steps = 1
    /\ Get(call).task_title = TheTitle
    /\ Get(call).new_lane = OtherLane
    /\ OtherLane \notin dirs
    /\ TaskPath(Trash, TheTitle) \in DOMAIN fs
    /\ TaskPath(TheLane, Stem(FirstName)) \in DOMAIN fs

\* C24: a split_tasks or change_lane call deletes no data: every text that
\* was stored in a lane or in Trash before the call is stored somewhere
\* after it, and no file that stays where it was has another text, that is,
\* no fragment, moved task or archived original is written over a file of
\* the same name.  Holding for each call, it holds for every sequence.
C24_NoDataDeleted ==
    [][(/\ pc' \in {"split_tasks", "change_lane", "change_lane_not_found"}
        /\ steps' # steps)
       => \A p \in DOMAIN fs :
              /\ \E q \in DOMAIN fs' : fs'[q] = fs[p]
              /\ p \in DOMAIN fs' => fs'[p] = fs[p]]_vars

\* C27: when update_task returns its success message, the file of the task
\* is in its lane under the resulting title and loads with the content (up
\* to surrounding white space), the tags and the due date of the updated
\* task; when the title changed no file is left under the old title.  So
\* the task has a file after every successful call, also when new_title is
\* the title it already had.
C27_UpdatePersists ==
    [][(pc' = "update_task" /\ steps' # steps)
       => LET a == Get(call')
              t == Get(task')
              p == TaskPath(t.lane, t.title)
          IN  /\ p \in DOMAIN fs'
              /\ Strip(StoredTask(fs', p).content) = Strip(t.content)
              /\ StoredTask(fs', p).tags = t.tags
              /\ StoredTask(fs', p).due_date = t.due_date
              /\ t.title # a.task_title
                 => TaskPath(t.lane, a.task_title) \notin DOMAIN fs']_vars

\* C29: after create_tasks_from_csv, the file of a row whose tag_list is
\* empty has no [tag:...] line and loads with no tags, and the file of a
\* row with a comma-separated tag_list loads with exactly those tags,
\* trimmed, in order.  Stated for files whose rows have distinct paths.
C29_CsvTags ==
    [][(pc' = "create_tasks_from_csv" /\ steps' # steps)
       => \A i \in 1..Len(Get(call')) :
              LET row == Get(call')[i]
                  p == TaskPath(row.lane, row.title)
                  parts == StrSplit(row.tag_list, <<",">>)
              IN  /\ p \in DOMAIN fs'
                  /\ IF row.tag_list = <<>>
                     THEN /\ StoredTask(fs', p).tags = Some(<<>>)
                          /\ \A n \in 1..Len(Lines(fs'[p])) :
                                 ~HasAnnotation(Lines(fs'[p])[n], TagOpen)
                     ELSE StoredTask(fs', p).tags =
                              Some([k \in 1..Len(parts) |-> Strip(parts[k])])]_vars

\* C25: save_config returns without an error, and Config constructed from
\* the file it wrote is constructed without an error and has the base_dir,
\* the openai_api_key and the openai_model of the Config that was saved.
C25_ConfigRoundTrip ==
    [][/\ (pc' \in {"save_config", "save_config_raised"} /\ steps' # steps)
          => pc' = "save_config"
       /\ (/\ pc \in {"save_config", "save_config_raised"}
           /\ pc' \in {"config", "config_raised"}
           /\ steps' # steps)
          => /\ pc' = "config"
             /\ config' = config]_vars

====
